---- MODULE Spec2Model ----
(***************************************************************************)
(* examples/example.py of cp2p: a script that appends its parent directory *)
(* to the module search path, imports add, multiply, square_root and       *)
(* is_even from bindings.math and, when run as the main program, calls     *)
(* each once and prints one formatted line per result.                     *)
(*                                                                         *)
(* One action per statement of the file.  The collaborator module is the   *)
(* environment: its import resolves or fails, and each call returns some   *)
(* Python value or raises.                                                 *)
(***************************************************************************)
EXTENDS Integers, Sequences, FiniteSets, TLC

VARIABLES
    name,       \* __name__ of the loaded file
    file,       \* __file__: [abs |-> BOOLEAN, parts |-> path components]
    cwd,        \* the process's working directory (path components)
    argv,       \* sys.argv[1:]
    environ,    \* os.environ (a set of variable names that are set)
    sys_path,   \* sys.path, a sequence of directories
    pc,         \* the statement about to run: "L3", "L5", ..., "done", "error"
    imported,   \* TRUE once line 5 has bound the four collaborator names
    result,     \* main's local `result`
    number,     \* main's local `number`
    stdout,     \* the lines written to standard output
    calls,      \* the collaborator's view: the calls received, with outcome
    raised,     \* the unhandled exception that ended the run, or "none"
    exit        \* "running", "success", "loaded" or "failure"

vars == <<name, file, cwd, argv, environ, sys_path, pc, imported, result,
          number, stdout, calls, raised, exit>>

----------------------------------------------------------------------------
(* Bounds of the invocation inputs. *)

MaxArgs == 1
MaxEnv == 1

ArgWords == {"--verbose", "8"}
EnvNames == {"PYTHONPATH", "HOME"}

SeqsUpTo(S, n) == UNION {[1..k -> S] : k \in 0..n}
SetsUpTo(S, n) == {E \in SUBSET S : Cardinality(E) <= n}

----------------------------------------------------------------------------
(* Python values.  A float is held in tenths (45 is 4.5); a bool is 0/1. *)

PyInt(n)   == [t |-> "int",   v |-> n]
PyFloat(n) == [t |-> "float", v |-> n]
PyBool(b)  == [t |-> "bool",  v |-> b]
Unbound    == [t |-> "unbound", v |-> 0]
Raises     == [t |-> "raise", v |-> 0]

(* What a collaborator call may hand back: any of these, or an exception. *)
ReturnValues ==
    {PyInt(8), PyInt(9), PyFloat(90), PyFloat(40), PyFloat(45),
     PyBool(1), PyBool(0)}
Outcomes == ReturnValues \cup {Raises}

Abs(n) == IF n < 0 THEN -n ELSE n

(* format(x, "") of an f-string replacement field: str(int), repr(float),  *)
(* "True"/"False" for a bool.                                              *)
Str(x) ==
    CASE x.t = "int"   -> ToString(x.v)
      [] x.t = "float" -> (IF x.v < 0 THEN "-" ELSE "")
                          \o ToString(Abs(x.v) \div 10) \o "."
                          \o ToString(Abs(x.v) % 10)
      [] x.t = "bool"  -> IF x.v = 1 THEN "True" ELSE "False"

----------------------------------------------------------------------------
(* Line 3: the directory appended to sys.path. *)

Abspath(f) == IF f.abs THEN f.parts ELSE cwd \o f.parts
Dirname(p) == IF Len(p) = 0 THEN p ELSE SubSeq(p, 1, Len(p) - 1)
ParentDir  == Dirname(Dirname(Abspath(file)))

Files ==
    {[abs |-> TRUE,  parts |-> <<"repo", "examples", "example.py">>],
     [abs |-> FALSE, parts |-> <<"examples", "example.py">>]}
Cwds == {<<"repo">>, <<"home", "user", "repo">>}
SitePackages == <<"usr", "lib", "python3", "site-packages">>

----------------------------------------------------------------------------
(* The literal arguments and the f-strings of main. *)

(* Mutants of the literals and f-strings below: each is the definition     *)
(* after a plausible slip.                                                 *)
SquareRootArgsInt     == <<PyInt(16)>>
IsEvenArgsOther       == <<PyInt(40)>>
MultiplyArgsChained   == <<result, PyFloat(20)>>
AddLineSwapped        == "3 + 5 = " \o Str(result)
MultiplyLineTruncated == "4.5 * 2.0 = " \o ToString(result.v \div 10)
SquareRootLineEnv     ==
    "sqrt(16.0) = " \o Str(result)
    \o (IF "PYTHONPATH" \in environ THEN " (PYTHONPATH set)" ELSE "")

AddArgs        == <<PyInt(5), PyInt(3)>>
MultiplyArgs   == <<PyFloat(45), PyFloat(20)>>
SquareRootArgs == <<PyFloat(160)>>
NumberLiteral  == PyInt(42)
IsEvenArgs     == <<number>>

AddLine        == "5 + 3 = " \o Str(result)
MultiplyLine   == "4.5 * 2.0 = " \o Str(result)
SquareRootLine == "sqrt(16.0) = " \o Str(result)
IsEvenLine     == "Is " \o Str(number) \o " even? " \o Str(result)

----------------------------------------------------------------------------
Init ==
    /\ name \in {"__main__", "example"}
    /\ file \in Files
    /\ cwd \in Cwds
    /\ argv \in SeqsUpTo(ArgWords, MaxArgs)
    /\ environ \in SetsUpTo(EnvNames, MaxEnv)
    /\ sys_path = <<SitePackages>>
    /\ pc = "L3"
    /\ imported = FALSE
    /\ result = Unbound
    /\ number = Unbound
    /\ stdout = <<>>
    /\ calls = <<>>
    /\ raised = "none"
    /\ exit = "running"

(* Line 3: sys.path.append(dirname(dirname(abspath(__file__)))) *)
AppendPath ==
    /\ pc = "L3"
    /\ sys_path' = Append(sys_path, ParentDir)
    /\ pc' = "L5"
    /\ UNCHANGED <<name, file, cwd, argv, environ, imported, result, number,
                   stdout, calls, raised, exit>>

(* Line 5: from bindings.math import ...; the module resolves. *)
ImportResolves ==
    /\ pc = "L5"
    /\ imported' = TRUE
    /\ pc' = "L25"
    /\ UNCHANGED <<name, file, cwd, argv, environ, sys_path, result, number,
                   stdout, calls, raised, exit>>

(* Mutant: the failed import is swallowed and the file carries on. *)
ImportFailsCaught ==
    /\ pc = "L5"
    /\ pc' = "L25"
    /\ raised' = "import"
    /\ UNCHANGED <<name, file, cwd, argv, environ, sys_path, imported, result,
                   number, stdout, calls, exit>>

(* Line 5: the module does not resolve; the ImportError is not caught. *)
ImportFails ==
    /\ pc = "L5"
    /\ pc' = "error"
    /\ raised' = "import"
    /\ exit' = "failure"
    /\ UNCHANGED <<name, file, cwd, argv, environ, sys_path, imported, result,
                   number, stdout, calls>>

(* Mutant: main() is called without the __name__ guard. *)
GuardAlways ==
    /\ pc = "L25"
    /\ pc' = "L9"
    /\ UNCHANGED <<name, file, cwd, argv, environ, sys_path, imported, result,
                   number, stdout, calls, raised, exit>>

(* Lines 25-26: if __name__ == "__main__": main() *)
Guard ==
    /\ pc = "L25"
    /\ IF name = "__main__"
         THEN pc' = "L9" /\ exit' = exit
         ELSE pc' = "done" /\ exit' = "loaded"
    /\ UNCHANGED <<name, file, cwd, argv, environ, sys_path, imported, result,
                   number, stdout, calls, raised>>

(* Mutant: a call that raises is made again instead of ending the run. *)
CallRetries(fn, args, next) ==
    /\ \E out \in Outcomes :
         /\ calls' = Append(calls, [fn |-> fn, args |-> args, out |-> out])
         /\ pc' = IF out = Raises THEN pc ELSE next
         /\ result' = IF out = Raises THEN result ELSE out
    /\ Len(calls) < 4
    /\ UNCHANGED <<name, file, cwd, argv, environ, sys_path, imported, number,
                   stdout, raised, exit>>

(* result = fn(args...): the collaborator returns a value, bound to       *)
(* `result`, or raises, which nothing in the file catches.                 *)
Call(fn, args, next) ==
    /\ \E out \in Outcomes :
         /\ calls' = Append(calls, [fn |-> fn, args |-> args, out |-> out])
         /\ IF out = Raises
              THEN /\ pc' = "error"
                   /\ raised' = "call"
                   /\ exit' = "failure"
                   /\ result' = result
              ELSE /\ pc' = next
                   /\ result' = out
                   /\ UNCHANGED <<raised, exit>>
    /\ UNCHANGED <<name, file, cwd, argv, environ, sys_path, imported, number,
                   stdout>>

(* print(line) *)
Emit(line, next) ==
    /\ stdout' = Append(stdout, line)
    /\ pc' = next
    /\ UNCHANGED <<name, file, cwd, argv, environ, sys_path, imported, result,
                   number, calls, raised>>

(* Lines 9-10 *)
CallAdd ==
    /\ pc = "L9"
    /\ Call("add", AddArgs, "L10")

PrintAdd ==
    /\ pc = "L10"
    /\ Emit(AddLine, "L13")
    /\ exit' = exit

(* Mutant: the multiplication result is computed but never printed. *)
PrintMultiplySkipped ==
    /\ pc = "L14"
    /\ pc' = "L17"
    /\ UNCHANGED <<name, file, cwd, argv, environ, sys_path, imported, result,
                   number, stdout, calls, raised, exit>>

(* Lines 13-14 *)
CallMultiply ==
    /\ pc = "L13"
    /\ Call("multiply", MultiplyArgs, "L14")

PrintMultiply ==
    /\ pc = "L14"
    /\ Emit(MultiplyLine, "L17")
    /\ exit' = exit

(* Lines 17-18 *)
CallSquareRoot ==
    /\ pc = "L17"
    /\ Call("square_root", SquareRootArgs, "L18")

PrintSquareRoot ==
    /\ pc = "L18"
    /\ Emit(SquareRootLine, "L21")
    /\ exit' = exit

(* Line 21: number = 42 *)
AssignNumber ==
    /\ pc = "L21"
    /\ number' = NumberLiteral
    /\ pc' = "L22"
    /\ UNCHANGED <<name, file, cwd, argv, environ, sys_path, imported, result,
                   stdout, calls, raised, exit>>

(* Line 22 *)
CallIsEven ==
    /\ pc = "L22"
    /\ Call("is_even", IsEvenArgs, "L23")

(* Line 23 is main's last statement: main returns, the file's last         *)
(* statement (line 26) is over, and the program ends.                      *)
PrintIsEven ==
    /\ pc = "L23"
    /\ Emit(IsEvenLine, "done")
    /\ exit' = "success"

Next ==
    \/ AppendPath
    \/ ImportResolves
    \/ ImportFails
    \/ Guard
    \/ CallAdd
    \/ PrintAdd
    \/ CallMultiply
    \/ PrintMultiply
    \/ CallSquareRoot
    \/ PrintSquareRoot
    \/ AssignNumber
    \/ CallIsEven
    \/ PrintIsEven

Spec == Init /\ [][Next]_vars

(* The interpreter runs the next statement whenever there is one. *)
FairSpec == Spec /\ WF_vars(Next)

TypeOK ==
    /\ pc \in {"L3", "L5", "L25", "L9", "L10", "L13", "L14", "L17", "L18",
               "L21", "L22", "L23", "done", "error"}
    /\ result \in ReturnValues \cup {Unbound}
    /\ number \in {Unbound, NumberLiteral}
    /\ exit \in {"running", "success", "loaded", "failure"}
    /\ raised \in {"none", "import", "call"}
    /\ Len(stdout) <= 4 /\ Len(calls) <= 4

----------------------------------------------------------------------------
(* What the properties below compare the run against: the four calls and   *)
(* the four lines as the source text gives them.                           *)

ExpectedFn == <<"add", "multiply", "square_root", "is_even">>
ExpectedArgs ==
    << <<PyInt(5), PyInt(3)>>, <<PyFloat(45), PyFloat(20)>>,
       <<PyFloat(160)>>, <<PyInt(42)>> >>
ExpectedPrefix ==
    <<"5 + 3 = ", "4.5 * 2.0 = ", "sqrt(16.0) = ", "Is 42 even? ">>
ExpectedLine(i) == ExpectedPrefix[i] \o Str(calls[i].out)

Returned(i) == i <= Len(calls) /\ calls[i].out # Raises
AllReturned == Len(calls) = 4 /\ \A i \in 1..4 : Returned(i)
Halted == pc \in {"done", "error"}
RunAsMain == name = "__main__"

(* C1: a run as the main program in which the import resolves and all four *)
(* calls return ends successfully with exactly four lines on standard      *)
(* output, in the order addition, multiplication, square root, even-check, *)
(* and nothing else; and every run either ends in a failure or reaches     *)
(* that end.                                                               *)
C1_FourLinesThenSuccess ==
    /\ [](RunAsMain /\ imported /\ AllReturned /\ Halted =>
            /\ pc = "done"
            /\ exit = "success"
            /\ stdout = [i \in 1..4 |-> ExpectedLine(i)]
            /\ ~ENABLED Next)
    /\ <>(\/ pc = "error"
          \/ ~RunAsMain /\ pc = "done"
          \/ /\ RunAsMain /\ imported /\ AllReturned
             /\ pc = "done"
             /\ exit = "success"
             /\ Len(stdout) = 4)
C1_Witness ==
    /\ RunAsMain /\ imported /\ AllReturned /\ pc = "done"
    /\ stdout = <<"5 + 3 = 8", "4.5 * 2.0 = 9.0", "sqrt(16.0) = 4.0",
                  "Is 42 even? True">>

(* C2: if the collaborator module fails to resolve, the run ends in an     *)
(* unhandled error at the import; main is never entered, so no             *)
(* collaborator function is called and no line is written.                 *)
C2_ImportFailureEndsRun ==
    raised = "import" =>
        /\ pc = "error"
        /\ exit = "failure"
        /\ ~imported
        /\ calls = <<>>
        /\ stdout = <<>>
        /\ result = Unbound /\ number = Unbound
        /\ ~ENABLED Next
C2_Witness == raised = "import" /\ RunAsMain /\ pc = "error"

(* C3: the first call is add(5, 3), and when it returns the integer sum of *)
(* its arguments the first line written is exactly "5 + 3 = 8".            *)
C3_AdditionLine ==
    /\ Len(calls) >= 1 =>
           calls[1].fn = "add" /\ calls[1].args = <<PyInt(5), PyInt(3)>>
    /\ Len(stdout) >= 1 =>
           /\ Returned(1)
           /\ LET a == calls[1].args
              IN  calls[1].out = PyInt(a[1].v + a[2].v) =>
                      stdout[1] = "5 + 3 = 8"
C3_Witness ==
    /\ Len(stdout) >= 1 /\ Len(calls) >= 1
    /\ calls[1].out = PyInt(8)
    /\ stdout[1] = "5 + 3 = 8"

(* C4: the fourth call is is_even(42), and when it returns true (42 being  *)
(* even) the line written is exactly "Is 42 even? True"; the number shown  *)
(* in the line is the value that was passed to is_even.                    *)
C4_EvenCheckLine ==
    /\ Len(calls) >= 4 =>
           calls[4].fn = "is_even" /\ calls[4].args = <<PyInt(42)>>
    /\ Len(stdout) >= 4 =>
           /\ Returned(4)
           /\ LET n == calls[4].args[1]
              IN  /\ stdout[4] = "Is " \o Str(n) \o " even? "
                                 \o Str(calls[4].out)
                  /\ (n.v % 2 = 0 /\ calls[4].out = PyBool(1)) =>
                         stdout[4] = "Is 42 even? True"
C4_Witness ==
    /\ Len(stdout) = 4 /\ Len(calls) = 4
    /\ calls[4].out = PyBool(1)
    /\ stdout[4] = "Is 42 even? True"

(* C5: the second call is multiply(4.5, 2.0), and when it returns the      *)
(* floating-point product of its arguments the line written is exactly     *)
(* "4.5 * 2.0 = 9.0", with the decimal point.                              *)
C5_MultiplicationLine ==
    /\ Len(calls) >= 2 =>
           /\ calls[2].fn = "multiply"
           /\ calls[2].args = <<PyFloat(45), PyFloat(20)>>
    /\ Len(stdout) >= 2 =>
           /\ Returned(2)
           /\ LET a == calls[2].args
              IN  (/\ (a[1].v * a[2].v) % 10 = 0
                   /\ calls[2].out = PyFloat((a[1].v * a[2].v) \div 10)) =>
                      stdout[2] = "4.5 * 2.0 = 9.0"
C5_Witness ==
    /\ Len(stdout) >= 2 /\ Len(calls) >= 2
    /\ calls[2].out = PyFloat(90)
    /\ stdout[2] = "4.5 * 2.0 = 9.0"

(* C6: the third call is square_root(16.0), and when it returns the        *)
(* floating-point square root of its argument the line written is exactly  *)
(* "sqrt(16.0) = 4.0".                                                     *)
C6_SquareRootLine ==
    /\ Len(calls) >= 3 =>
           /\ calls[3].fn = "square_root"
           /\ calls[3].args = <<PyFloat(160)>>
    /\ Len(stdout) >= 3 =>
           /\ Returned(3)
           /\ LET r == calls[3].out
              IN  (/\ r.t = "float" /\ r.v >= 0
                   /\ r.v * r.v = calls[3].args[1].v * 10) =>
                      stdout[3] = "sqrt(16.0) = 4.0"
C6_Witness ==
    /\ Len(stdout) >= 3 /\ Len(calls) >= 3
    /\ calls[3].out = PyFloat(40)
    /\ stdout[3] = "sqrt(16.0) = 4.0"

(* C7: the four calls are independent.  Each collaborator function is      *)
(* called at most once and always with its literal arguments, whatever the *)
(* earlier calls returned; each line shows the value returned by its own   *)
(* call, and a print reads `result` as the call just before it bound it.   *)
C7_CallsIndependent ==
    /\ Len(calls) <= 4
    /\ \A i \in 1..Len(calls) :
           /\ calls[i].fn = ExpectedFn[i]
           /\ calls[i].args = ExpectedArgs[i]
    /\ \A i, j \in 1..Len(calls) : calls[i].fn = calls[j].fn => i = j
    /\ \A i \in 1..Len(stdout) : Returned(i) /\ stdout[i] = ExpectedLine(i)
    /\ pc \in {"L10", "L14", "L18", "L23"} =>
           /\ Len(calls) = Len(stdout) + 1
           /\ result = calls[Len(calls)].out
C7_Witness ==
    /\ pc = "L23"
    /\ calls[1].out = PyFloat(45)
    /\ calls[2].out = PyInt(8)
    /\ calls[3].out = PyBool(0)
    /\ calls[4].out = PyFloat(40)

(* C8: if the k-th call fails, the run ends there with an unhandled        *)
(* failure: exactly the first k-1 lines are written, the failed call is    *)
(* the last call made and was made once, and nothing further runs.         *)
C8_CallFailureEndsRun ==
    \A k \in 1..Len(calls) :
        calls[k].out = Raises =>
            /\ k = Len(calls)
            /\ pc = "error" /\ raised = "call" /\ exit = "failure"
            /\ Len(stdout) = k - 1
            /\ \A i \in 1..(k - 1) : Returned(i) /\ stdout[i] = ExpectedLine(i)
            /\ \A i \in 1..k : calls[i].fn = ExpectedFn[i]
            /\ ~ENABLED Next
C8_Witness ==
    /\ Len(calls) = 3 /\ calls[3].out = Raises
    /\ pc = "error"
    /\ stdout = <<"5 + 3 = 8", "4.5 * 2.0 = 9.0">>

(* C9: the lines written are determined by the collaborator's behaviour    *)
(* alone (whether the file runs as the main program, and what each call    *)
(* returned): the command-line arguments, the environment, the file's path *)
(* and the working directory do not enter.  So two runs that differ only   *)
(* in those write the same lines.                                          *)
Pending == IF pc \in {"L10", "L14", "L18", "L23"} THEN 1 ELSE 0
NReturned == Cardinality({i \in 1..Len(calls) : Returned(i)})
C9_OutputIgnoresInvocation ==
    stdout = [i \in 1..(NReturned - Pending) |-> ExpectedLine(i)]
C9_Witness ==
    /\ pc = "done" /\ RunAsMain
    /\ argv = <<"8">>
    /\ environ = {"PYTHONPATH"}
    /\ stdout = <<"5 + 3 = 9", "4.5 * 2.0 = 9.0", "sqrt(16.0) = 4.0",
                  "Is 42 even? False">>

(* C10: loaded as a module (not run as the main program), the file still   *)
(* appends the parent directory to the search path and still attempts the  *)
(* import, but main does not run: no collaborator function is called and   *)
(* no line is written.                                                     *)
C10_ModuleLoadRunsNoMain ==
    ~RunAsMain =>
        /\ pc \in {"L3", "L5", "L25", "done", "error"}
        /\ calls = <<>>
        /\ stdout = <<>>
        /\ pc # "L3" =>
               sys_path = <<SitePackages, Dirname(Dirname(Abspath(file)))>>
        /\ pc \in {"L25", "done"} => imported
        /\ pc = "error" => raised = "import"
        /\ pc = "done" => exit = "loaded" /\ ~ENABLED Next
C10_Witness ==
    /\ ~RunAsMain /\ pc = "done" /\ imported
    /\ sys_path = <<SitePackages, <<"home", "user", "repo">> >>
====
